---- MODULE Spec2Model ----
(***************************************************************************)
(* The Cloud Zoo issuer callback server of src/app.py: a Flask application *)
(* that serves /get_license, /add_license and /remove_license on top of a  *)
(* PostgreSQL table "licenses".  Every request is handled by its own       *)
(* worker with its own connection; the table is the only shared state.     *)
(* The storage engine is PostgreSQL at its default isolation level (READ   *)
(* COMMITTED): a SELECT reads the committed table, an UPDATE locks the row *)
(* it writes until the transaction ends, COMMIT publishes the writes.      *)
(***************************************************************************)
EXTENDS Integers, Sequences, FiniteSets, TLC

\* ------------------------------------------------------------- bounds
MaxBatch == 2        \* longest licenses list of a remove_license request

\* Timestamps are counted in half seconds.
TicksPerSecond == 2

\* Two requests can be in flight at the same time.
Workers == {1, 2}

NULL == "NULL"                     \* SQL NULL, Python None
Keys == {"K1", "K2"}               \* license keys a request can name
Products == {"P1", "P2"}
Entities == {"E1", "E2"}

ISSUER_ID == "issuer"
ISSUER_SECRET == "secret"

\* A timestamp column holds <<>> (NULL) or <<ticks>>.
NoTime == <<>>
\* NOW(): some timestamp that is not NULL (no handler reads date_assigned).
Now == <<1>>

\* ------------------------------------------------ the licenses table
\* The value an INSERT that names only license_key and product_id stores:
\* the column defaults of the CREATE TABLE statement.
DefaultEditions == <<"{", "en", ":", "Commercial", "}">>

NewRow(key, product, seats, exp, editions) ==
  [license_key |-> key, product_id |-> product, status |-> "available",
   entity_id |-> NULL, numberOfSeats |-> seats, exp |-> exp,
   editions |-> editions, date_created |-> <<0>>, date_assigned |-> NoTime]

\* The tables the provisioning process leaves behind: license_key is UNIQUE,
\* every record is available and unassigned.  K2 may not be provisioned.
InitialTables ==
  LET a == NewRow("K1", "P1", 1, NoTime, DefaultEditions)
      b == NewRow("K2", "P2", 2, <<3>>,
                  <<"{", "en", ":", "Commercial", ",",
                    "de", ":", "Kommerziell", "}">>)
  IN  { [k \in {"K1"} |-> a],
        [k \in {"K1", "K2"} |-> IF k = "K1" THEN a ELSE b] }

VARIABLES
  db,       \* the committed licenses table: license_key -> row
  pc,       \* per worker: "idle", "update" (add_license) or "loop" (remove_license)
  req,      \* per worker: the request it is handling
  local,    \* per worker: the handler's local variables
  pending,  \* per worker: the row versions its open transaction wrote
  out,      \* the request the last step answered, with its response
  hist,     \* sequential runs: the last two requests that wrote the table
  owner,    \* per key: the entity of the first add_license answered 200 since
            \* the last remove_license of the key answered 200
  rivals    \* per key: the workers that had read the record as available when
            \* an add_license for it was answered 200, none released it since

vars == <<db, pc, req, local, pending, out, hist, owner, rivals>>

\* ---------------------------------------------------------- requests
NoAuth == <<>>
GoodAuth == <<ISSUER_ID, ISSUER_SECRET>>
BadAuths == {NoAuth, <<ISSUER_ID, "wrong">>, <<"other", ISSUER_SECRET>>}

\* An entry of licenseCluster.licenses: a dict whose get('key') is key.
LicenseEntry(key) == [key |-> key]

SeqsUpTo(S, n) == UNION { [1..m -> S] : m \in 0..n }

Request(route, auth, present, key, aud, entityId, licenses) ==
  [route |-> route, auth |-> auth, present |-> present, key |-> key,
   aud |-> aud, entityId |-> entityId, licenses |-> licenses]

NoRequest == Request("none", NoAuth, FALSE, NULL, NULL, NULL, <<>>)

\* GET /get_license?key=&aud= with its parameters drawn from args.
GetRequests(auths, args) ==
  { Request("get_license", a, FALSE, k, p, NULL, <<>>) :
      a \in auths, k \in Keys \cup args, p \in Products \cup args }

\* POST /add_license with no body, or a body whose fields are drawn from args.
AddRequests(auths, args) ==
  { Request("add_license", a, TRUE, k, p, e, <<>>) :
      a \in auths, k \in Keys \cup args, p \in Products \cup args,
      e \in Entities \cup args }
  \cup { Request("add_license", a, FALSE, NULL, NULL, NULL, <<>>) : a \in auths }

\* POST /remove_license with no body, or a licenses list of up to MaxBatch
\* entries whose keys are drawn from args.
RemoveRequests(auths, args) ==
  { Request("remove_license", a, TRUE, NULL, NULL, NULL, l) :
      a \in auths,
      l \in SeqsUpTo({ LicenseEntry(k) : k \in Keys \cup args }, MaxBatch) }
  \cup { Request("remove_license", a, FALSE, NULL, NULL, NULL, <<>>) : a \in auths }

IndexRequests ==
  { Request("index", a, FALSE, NULL, NULL, NULL, <<>>) : a \in {NoAuth, GoodAuth} }

\* The requests of the issuer: authenticated, a field present or absent.
Served ==
  GetRequests({GoodAuth}, {NULL}) \cup AddRequests({GoodAuth}, {NULL})
  \cup RemoveRequests({GoodAuth}, {})

\* Of these, the requests that get past validation to a storage call.
Stored ==
  { q \in GetRequests({GoodAuth}, {}) \cup AddRequests({GoodAuth}, {})
           \cup RemoveRequests({GoodAuth}, {}) :
      q.route = "get_license" \/ (q.present /\ (q.route = "add_license" \/ q.licenses # <<>>)) }

\* The same requests without the issuer's credentials.
Unauthenticated ==
  GetRequests(BadAuths, {NULL}) \cup AddRequests(BadAuths, {NULL})
  \cup RemoveRequests(BadAuths, {})

\* Every request: also empty fields, entries without a key, the root route and
\* requests without the issuer's credentials.
Requests ==
  GetRequests({GoodAuth}, {NULL, ""}) \cup AddRequests({GoodAuth}, {NULL, ""})
  \cup RemoveRequests({GoodAuth}, {NULL})
  \cup IndexRequests \cup Unauthenticated

\* --------------------------------------------------------- responses
\* jsonify(body), status
Json(status, body) == [status |-> status, type |-> "json", body |-> body]
\* a plain string body
Text(status, body) == [status |-> status, type |-> "text", body |-> [text |-> body]]
\* the page Flask answers with when a view raises
Html(status) == [status |-> status, type |-> "html", body |-> [text |-> "Internal Server Error"]]
Description(status, message) == Json(status, [description |-> message])
NoResponse == Text(0, "")

\* What a step answered: the worker, its request, the response, the state its
\* storage connection is left in ("none": never opened) and the keys of the
\* rows its transaction had written.
Output(r, q, a, c, w) ==
  [worker |-> r, req |-> q, resp |-> a, conn |-> c, writes |-> w]
NoOutput == Output(0, NoRequest, NoResponse, "none", {})

NoLocal == [result |-> <<>>, i |-> 0]
NoWrites == <<>>

Init ==
  /\ db \in InitialTables
  /\ pc = [r \in Workers |-> "idle"]
  /\ req = [r \in Workers |-> NoRequest]
  /\ local = [r \in Workers |-> NoLocal]
  /\ pending = [r \in Workers |-> NoWrites]
  /\ out = NoOutput
  /\ hist = <<>>
  /\ owner = [k \in Keys |-> NULL]
  /\ rivals = [k \in Keys |-> {}]

\* ------------------------------------------------- response formatting
\* int(x): truncation toward zero.
PyInt(n, d) == IF n >= 0 THEN n \div d ELSE -((-n) \div d)

\* int(expiration.timestamp()) if expiration else None
EpochSeconds(expiration) ==
  IF expiration = NoTime THEN <<>> ELSE <<PyInt(expiration[1], TicksPerSecond)>>

JsonPunctuation == {"{", "}", ":", ","}

\* The members of a JSON object from token i on, added to acc (a set of
\* <<name, value>> pairs; a repeated name keeps its last value).  <<FALSE, _>>
\* is json.JSONDecodeError.
RECURSIVE ParseMembers(_, _, _)
ParseMembers(s, i, acc) ==
  IF i + 3 > Len(s) \/ s[i] \in JsonPunctuation \/ s[i + 1] # ":"
     \/ s[i + 2] \in JsonPunctuation
  THEN <<FALSE, {}>>
  ELSE LET added == { m \in acc : m[1] # s[i] } \cup { <<s[i], s[i + 2]>> }
       IN  IF s[i + 3] = "}"
           THEN IF i + 3 = Len(s) THEN <<TRUE, added>> ELSE <<FALSE, {}>>
           ELSE IF s[i + 3] = ","
                THEN ParseMembers(s, i + 4, added)
                ELSE <<FALSE, {}>>

\* json.loads(editions_str) for the objects the editions column holds.
json_loads(s) ==
  IF Len(s) < 2 \/ s[1] # "{" THEN <<FALSE, {}>>
  ELSE IF Len(s) = 2 THEN <<s[2] = "}", {}>>
  ELSE ParseMembers(s, 2, {})

\* The License object both get_license and add_license build.
License(key, prod_id, number_of_seats, expiration, editions_str) ==
  [id |-> key, key |-> key, aud |-> prod_id, iss |-> ISSUER_ID,
   exp |-> EpochSeconds(expiration), numberOfSeats |-> number_of_seats,
   editions |-> json_loads(editions_str)[2]]

InternalError == Description(500, "An internal server error occurred.")

\* A faulty variant: the password is not compared.
check_auth_username(username, password) ==
  username = ISSUER_ID

\* ----------------------------------------------------- authentication
check_auth(username, password) ==
  username = ISSUER_ID /\ password = ISSUER_SECRET

authenticate == Text(401, "Could not verify your access level...")

\* requires_auth lets the request through to the view.
requires_auth(q) == q.auth # NoAuth /\ check_auth(q.auth[1], q.auth[2])

\* ------------------------------------------------------------ storage
\* A faulty variant: only an absent field counts as missing.
Truthy_not_none(v) == v # NULL

\* Python truthiness of a request field.
Truthy(v) == v # NULL /\ v # ""

\* A faulty variant: WHERE license_key = key, whatever the product.
SelectLicense_by_key(key, aud) ==
  IF key \in DOMAIN db THEN <<db[key]>> ELSE <<>>

\* SELECT ... FROM licenses WHERE license_key = key AND product_id = aud,
\* then fetchone(): <<>> (None) or <<row>>.  A SELECT reads committed rows.
SelectLicense(key, aud) ==
  IF key \in DOMAIN db /\ db[key].product_id = aud THEN <<db[key]>> ELSE <<>>

\* The workers other than r whose open transaction holds the row lock of key.
LockedBy(r, key) == { o \in Workers \ {r} : key \in DOMAIN pending[o] }

\* A faulty variant: the status read by the SELECT is not looked at.
Unavailable_never(current_status) == FALSE

\* if current_status != 'available'
Unavailable(current_status) == current_status # "available"

\* A faulty variant: the UPDATE leaves the status as it is.
Assigned_entity_only(row, entity_id) ==
  [row EXCEPT !.entity_id = entity_id, !.date_assigned = Now]

\* A faulty variant: the UPDATE also resets the seats to the column default.
Assigned_resets_seats(row, entity_id) ==
  [row EXCEPT !.status = "assigned", !.entity_id = entity_id,
              !.date_assigned = Now, !.numberOfSeats = 1]

\* UPDATE licenses SET status = 'assigned', entity_id = e, date_assigned = NOW()
Assigned(row, entity_id) ==
  [row EXCEPT !.status = "assigned", !.entity_id = entity_id,
              !.date_assigned = Now]

\* Faulty variants: the UPDATE forgets a column.
Released_keeps_entity(row) ==
  [row EXCEPT !.status = "available", !.date_assigned = NoTime]

Released_keeps_date(row) ==
  [row EXCEPT !.status = "available", !.entity_id = NULL]

\* UPDATE licenses SET status = 'available', entity_id = NULL, date_assigned = NULL
Released(row) ==
  [row EXCEPT !.status = "available", !.entity_id = NULL,
              !.date_assigned = NoTime]

\* A faulty variant: the UPDATE has no WHERE clause, every record is written.
Committed_everywhere(writes) ==
  IF DOMAIN writes = {} THEN db
  ELSE LET w == writes[CHOOSE k \in DOMAIN writes : TRUE]
       IN  [k \in DOMAIN db |->
              [db[k] EXCEPT !.status = w.status, !.entity_id = w.entity_id,
                            !.date_assigned = w.date_assigned]]

\* The table after COMMIT of the row versions in writes.
Committed(writes) ==
  [k \in DOMAIN db |-> IF k \in DOMAIN writes THEN writes[k] ELSE db[k]]

\* The worker answers request q with a; its locals and its transaction are gone
\* (a transaction that was not committed is rolled back with its connection).
Return(r, q, a, c) ==
  /\ pc' = [pc EXCEPT ![r] = "idle"]
  /\ req' = [req EXCEPT ![r] = NoRequest]
  /\ local' = [local EXCEPT ![r] = NoLocal]
  /\ pending' = [pending EXCEPT ![r] = NoWrites]
  /\ out' = Output(r, q, a, c, DOMAIN pending[r])

\* The worker goes on with request q at p.
Continue(r, q, p, l) ==
  /\ pc' = [pc EXCEPT ![r] = p]
  /\ req' = [req EXCEPT ![r] = q]
  /\ local' = [local EXCEPT ![r] = l]
  /\ out' = NoOutput

\* ------------------------------------------------------------- routes
\* requires_auth turns the request away.
unauthorized(r, q) ==
  /\ pc[r] = "idle"
  /\ q.route # "index"
  /\ ~requires_auth(q)
  /\ Return(r, q, authenticate, "none")
  /\ UNCHANGED db

index(r, q) ==
  /\ pc[r] = "idle"
  /\ q.route = "index"
  /\ Return(r, q, Text(200, "Cloud Zoo Issuer Callback Server is running."), "none")
  /\ UNCHANGED db

\* A faulty variant: a lookup that finds the record stamps it.
get_license_stamps(r, q) ==
  /\ pc[r] = "idle"
  /\ q.route = "get_license"
  /\ requires_auth(q)
  /\ IF ~Truthy(q.key) \/ ~Truthy(q.aud)
     THEN /\ Return(r, q, Description(400, "Missing license key or product ID."), "none")
          /\ db' = db
     ELSE LET license_data == SelectLicense(q.key, q.aud)
          IN  IF license_data # <<>>
              THEN /\ Return(r, q,
                             Json(200, License(license_data[1].license_key,
                                               license_data[1].product_id,
                                               license_data[1].numberOfSeats,
                                               license_data[1].exp,
                                               license_data[1].editions)),
                             "closed")
                   /\ db' = [db EXCEPT ![q.key].date_created = Now]
              ELSE /\ Return(r, q,
                             Description(404, "License key not found for the specified product."),
                             "closed")
                   /\ db' = db

\* GET /get_license: the whole view; its one storage statement is the SELECT.
get_license(r, q) ==
  /\ pc[r] = "idle"
  /\ q.route = "get_license"
  /\ requires_auth(q)
  /\ UNCHANGED db
  /\ IF ~Truthy(q.key) \/ ~Truthy(q.aud)
     THEN Return(r, q, Description(400, "Missing license key or product ID."), "none")
     ELSE LET license_data == SelectLicense(q.key, q.aud)
          IN  IF license_data # <<>>
              THEN LET row == license_data[1]
                   IN  IF json_loads(row.editions)[1]
                       THEN Return(r, q,
                                   Json(200, License(row.license_key, row.product_id,
                                                     row.numberOfSeats, row.exp,
                                                     row.editions)),
                                   "closed")
                       ELSE Return(r, q, Html(500), "closed")
              ELSE Return(r, q,
                          Description(404, "License key not found for the specified product."),
                          "closed")

\* POST /add_license up to its early returns: validation, connection, SELECT.
add_license_select(r, q) ==
  /\ pc[r] = "idle"
  /\ q.route = "add_license"
  /\ requires_auth(q)
  /\ UNCHANGED db
  /\ IF ~q.present
     THEN Return(r, q, Description(400, "Request body is missing"), "none")
     ELSE IF ~(Truthy(q.key) /\ Truthy(q.aud) /\ Truthy(q.entityId))
     THEN Return(r, q, Description(400, "Request is missing key data or entity ID."), "none")
     ELSE LET result == SelectLicense(q.key, q.aud)
          IN  IF result = <<>>
              THEN Return(r, q, Description(409, "The provided license key does not exist."),
                          "closed")
              ELSE IF Unavailable(result[1].status)
              THEN Return(r, q,
                          Description(409, "This license key is not available to be added."),
                          "closed")
              ELSE /\ Continue(r, q, "update", [result |-> result, i |-> 0])
                   /\ UNCHANGED pending

\* A faulty variant: the LicenseCluster is built without the expiration.
add_license_update_no_exp(r) ==
  /\ pc[r] = "update"
  /\ LockedBy(r, req[r].key) = {}
  /\ db' = Committed([k \in {req[r].key} |-> Assigned(db[k], req[r].entityId)])
  /\ pc' = [pc EXCEPT ![r] = "idle"]
  /\ req' = [req EXCEPT ![r] = NoRequest]
  /\ local' = [local EXCEPT ![r] = NoLocal]
  /\ UNCHANGED pending
  /\ out' = Output(r, req[r],
                   Json(200, [licenses |-> <<License(req[r].key, req[r].aud,
                                                     local[r].result[1].numberOfSeats,
                                                     NoTime,
                                                     local[r].result[1].editions)>>]),
                   "closed", {req[r].key})

\* POST /add_license from the UPDATE on: UPDATE ... WHERE license_key = key,
\* COMMIT, and the LicenseCluster built from the values the SELECT read.  The
\* UPDATE waits while another transaction holds the row lock.
add_license_update(r) ==
  /\ pc[r] = "update"
  /\ LockedBy(r, req[r].key) = {}
  /\ db' = Committed([k \in {req[r].key} |-> Assigned(db[k], req[r].entityId)])
  /\ pc' = [pc EXCEPT ![r] = "idle"]
  /\ req' = [req EXCEPT ![r] = NoRequest]
  /\ local' = [local EXCEPT ![r] = NoLocal]
  /\ UNCHANGED pending
  /\ LET row == local[r].result[1]
         a == IF json_loads(row.editions)[1]
              THEN Json(200, [licenses |-> <<License(req[r].key, req[r].aud,
                                                     row.numberOfSeats, row.exp,
                                                     row.editions)>>])
              ELSE InternalError
     IN  out' = Output(r, req[r], a, "closed", {req[r].key})

\* POST /remove_license up to the loop: validation and connection.
remove_license_begin(r, q) ==
  /\ pc[r] = "idle"
  /\ q.route = "remove_license"
  /\ requires_auth(q)
  /\ UNCHANGED db
  /\ IF ~q.present
     THEN Return(r, q, Description(400, "Request body is missing"), "none")
     ELSE IF q.licenses = <<>>
     THEN Return(r, q, Description(400, "No licenses specified for removal."), "none")
     ELSE /\ Continue(r, q, "loop", [result |-> <<>>, i |-> 1])
          /\ UNCHANGED pending

\* The key the loop of remove_license is at (NULL: the entry has none).
LoopKey(r) == req[r].licenses[local[r].i].key

\* One iteration of the loop: UPDATE ... WHERE license_key = key when the entry
\* has a key.  The UPDATE locks the row it writes; it waits while another
\* transaction holds that lock; it writes nothing when no row has the key.
remove_license_update(r) ==
  /\ pc[r] = "loop"
  /\ local[r].i <= Len(req[r].licenses)
  /\ LET license_key == LoopKey(r)
     IN  IF Truthy(license_key) /\ license_key \in DOMAIN db
         THEN /\ LockedBy(r, license_key) = {}
              /\ pending' =
                   [pending EXCEPT ![r] =
                      [k \in DOMAIN pending[r] \cup {license_key} |->
                         IF k = license_key
                         THEN Released(IF k \in DOMAIN pending[r]
                                       THEN pending[r][k] ELSE db[k])
                         ELSE pending[r][k]]]
         ELSE UNCHANGED pending
  /\ Continue(r, req[r], "loop", [local[r] EXCEPT !.i = @ + 1])
  /\ UNCHANGED db

\* A faulty variant: releasing a batch with no assigned record is an error.
remove_license_commit_strict(r) ==
  /\ pc[r] = "loop"
  /\ local[r].i > Len(req[r].licenses)
  /\ db' = Committed(pending[r])
  /\ IF \E k \in DOMAIN pending[r] : db[k].status = "assigned"
     THEN Return(r, req[r], Text(200, ""), "closed")
     ELSE Return(r, req[r], Description(409, "No license to remove."), "closed")

\* A faulty variant: a key that matches no record fails the batch.
remove_license_commit_known(r) ==
  /\ pc[r] = "loop"
  /\ local[r].i > Len(req[r].licenses)
  /\ IF \A i \in 1..Len(req[r].licenses) : req[r].licenses[i].key \in DOMAIN db
     THEN /\ db' = Committed(pending[r])
          /\ Return(r, req[r], Text(200, ""), "closed")
     ELSE /\ db' = db
          /\ Return(r, req[r], Description(404, "License key not found."), "closed")

\* conn.commit() and the 200 with an empty body.
remove_license_commit(r) ==
  /\ pc[r] = "loop"
  /\ local[r].i > Len(req[r].licenses)
  /\ db' = Committed(pending[r])
  /\ Return(r, req[r], Text(200, ""), "closed")

\* The workers whose lock r's next statement waits for.
WaitsFor(r) ==
  IF pc[r] = "loop" /\ local[r].i <= Len(req[r].licenses) /\ Truthy(LoopKey(r))
  THEN LockedBy(r, LoopKey(r))
  ELSE IF pc[r] = "update" THEN LockedBy(r, req[r].key) ELSE {}

RECURSIVE WaitChain(_, _)
WaitChain(S, n) ==
  IF n = 0 THEN S ELSE WaitChain(S \cup UNION { WaitsFor(o) : o \in S }, n - 1)

\* PostgreSQL finds r's UPDATE in a cycle of lock waits and aborts it: the
\* statement raises, the except clause answers 500 without closing the
\* connection, and the transaction, never committed, is rolled back.
remove_license_deadlock(r) ==
  /\ pc[r] = "loop"
  /\ r \in WaitChain(WaitsFor(r), Cardinality(Workers))
  /\ Return(r, req[r], InternalError, "open")
  /\ UNCHANGED db

\* ----------------------------------------------------- storage failures
\* get_db_connection() raises (c = "none") or the SELECT raises (c = "open").
\* get_license has no except clause: Flask answers with its own 500 page.
get_license_error(r, q, c) ==
  /\ pc[r] = "idle"
  /\ q.route = "get_license"
  /\ requires_auth(q)
  /\ Truthy(q.key) /\ Truthy(q.aud)
  /\ Return(r, q, Html(500), c)
  /\ UNCHANGED db

\* get_db_connection() or the SELECT of add_license raises.
add_license_select_error(r, q, c) ==
  /\ pc[r] = "idle"
  /\ q.route = "add_license"
  /\ requires_auth(q)
  /\ q.present /\ Truthy(q.key) /\ Truthy(q.aud) /\ Truthy(q.entityId)
  /\ Return(r, q, InternalError, c)
  /\ UNCHANGED db

\* A faulty variant: the UPDATE is published although the request fails.
add_license_update_error_applied(r) ==
  /\ pc[r] = "update"
  /\ LockedBy(r, req[r].key) = {}
  /\ Return(r, req[r], InternalError, "open")
  /\ db' = Committed([k \in {req[r].key} |-> Assigned(db[k], req[r].entityId)])

\* The UPDATE or the COMMIT of add_license raises: nothing is committed.
add_license_update_error(r) ==
  /\ pc[r] = "update"
  /\ Return(r, req[r], InternalError, "open")
  /\ UNCHANGED db

\* get_db_connection() of remove_license raises.
remove_license_begin_error(r, q) ==
  /\ pc[r] = "idle"
  /\ q.route = "remove_license"
  /\ requires_auth(q)
  /\ q.present /\ q.licenses # <<>>
  /\ Return(r, q, InternalError, "none")
  /\ UNCHANGED db

\* A faulty variant: the connection commits each statement as it runs.
remove_license_error_autocommit(r) ==
  /\ pc[r] = "loop"
  /\ Return(r, req[r], InternalError, "open")
  /\ db' = Committed(pending[r])

\* An UPDATE of the loop or the COMMIT of remove_license raises: the writes of
\* the transaction are rolled back.
remove_license_error(r) ==
  /\ pc[r] = "loop"
  /\ Return(r, req[r], InternalError, "open")
  /\ UNCHANGED db

\* ------------------------------------------------------- observations
\* The keys a licenses list names.
KeysOf(licenses) ==
  { licenses[i].key : i \in 1..Len(licenses) } \ {NULL, ""}

Granted(o, k) ==
  o.req.route = "add_license" /\ o.resp.status = 200 /\ o.req.key = k

Freed(o, k) ==
  o.req.route = "remove_license" /\ o.resp.status = 200
  /\ k \in KeysOf(o.req.licenses)

Observe ==
  /\ owner' = [k \in Keys |->
                 IF Granted(out', k) /\ owner[k] = NULL THEN out'.req.entityId
                 ELSE IF Freed(out', k) THEN NULL
                 ELSE owner[k]]
  /\ rivals' = [k \in Keys |->
                  IF Freed(out', k) THEN {}
                  ELSE (IF Granted(out', k)
                        THEN rivals[k] \cup { o \in Workers :
                                                pc[o] = "update" /\ req[o].key = k }
                        ELSE rivals[k]) \ {out'.worker}]

\* An answered request with the records it names as they were before it and
\* the table as it was after it.
Named(q) ==
  (IF q.route = "remove_license" THEN KeysOf(q.licenses) ELSE {q.key})
  \cap DOMAIN db

Entry(o) ==
  [req |-> o.req, resp |-> o.resp, pre |-> [k \in Named(o.req) |-> db[k]],
   post |-> db']

\* A sequential run remembers the last two add_license and remove_license
\* requests answered 200: the requests that write the table.
Remembered(o) ==
  o.req.route \in {"add_license", "remove_license"} /\ o.resp.status = 200

Record ==
  hist' = IF Remembered(out')
          THEN (IF hist = <<>> THEN <<>> ELSE <<hist[Len(hist)]>>) \o <<Entry(out')>>
          ELSE hist

\* ------------------------------------------------------ specifications
\* Requests handled concurrently, storage never failing.
Concurrent(A) == A /\ Observe /\ UNCHANGED hist

Next ==
  \E r \in Workers :
    \/ \E q \in Served : Concurrent(get_license(r, q))
    \/ \E q \in Served : Concurrent(add_license_select(r, q))
    \/ Concurrent(add_license_update(r))
    \/ \E q \in Served : Concurrent(remove_license_begin(r, q))
    \/ Concurrent(remove_license_update(r))
    \/ Concurrent(remove_license_commit(r))
    \/ Concurrent(remove_license_deadlock(r))

Spec == Init /\ [][Next]_vars

\* Requests handled one after another by one worker, with their history.
Sequential(A) == A /\ Observe /\ Record

SeqNext ==
  \/ \E q \in Served : Sequential(get_license(1, q))
  \/ \E q \in Served : Sequential(add_license_select(1, q))
  \/ Sequential(add_license_update(1))
  \/ \E q \in Served : Sequential(remove_license_begin(1, q))
  \/ Sequential(remove_license_update(1))
  \/ Sequential(remove_license_commit(1))

SeqSpec == Init /\ [][SeqNext]_vars

\* Every request the server can receive, handled one after another.
AllNext ==
  \/ \E q \in Requests : Concurrent(unauthorized(1, q))
  \/ \E q \in Requests : Concurrent(index(1, q))
  \/ \E q \in Requests : Concurrent(get_license(1, q))
  \/ \E q \in Requests : Concurrent(add_license_select(1, q))
  \/ Concurrent(add_license_update(1))
  \/ \E q \in Requests : Concurrent(remove_license_begin(1, q))
  \/ Concurrent(remove_license_update(1))
  \/ Concurrent(remove_license_commit(1))

AllSpec == Init /\ [][AllNext]_vars

\* Requests handled concurrently, storage calls failing at any point.
FaultNext ==
  \E r \in Workers :
    \/ \E q \in Stored : Concurrent(get_license(r, q))
    \/ \E q \in Stored : Concurrent(add_license_select(r, q))
    \/ Concurrent(add_license_update(r))
    \/ \E q \in Stored : Concurrent(remove_license_begin(r, q))
    \/ Concurrent(remove_license_update(r))
    \/ Concurrent(remove_license_commit(r))
    \/ Concurrent(remove_license_deadlock(r))
    \/ \E q \in Stored, c \in {"none", "open"} : Concurrent(get_license_error(r, q, c))
    \/ \E q \in Stored, c \in {"none", "open"} : Concurrent(add_license_select_error(r, q, c))
    \/ Concurrent(add_license_update_error(r))
    \/ \E q \in Stored : Concurrent(remove_license_begin_error(r, q))
    \/ Concurrent(remove_license_error(r))

FaultSpec == Init /\ [][FaultNext]_vars

\* ------------------------------------------------------------- claims
NotAvailableBody == [description |-> "This license key is not available to be added."]
NotFoundBody == [description |-> "License key not found for the specified product."]

\* The last step answered a request of this route.
Answered(o, route) == o.req.route = route /\ requires_auth(o.req)

\* Every field of an add_license request is there.
Missing(v) == v \in {NULL, ""}

Complete(q) == q.present /\ ~Missing(q.key) /\ ~Missing(q.aud) /\ ~Missing(q.entityId)

\* The committed table holds a record for (key, aud); its status.
Matches(key, aud) == key \in DOMAIN db /\ db[key].product_id = aud

MatchAvailable(key, aud) == Matches(key, aud) /\ db[key].status = "available"

\* C1: of the add_license requests for one (key, aud) that run concurrently on
\* an available record, none released in between, one is answered 200 and
\* every other one 409 "not available": a worker that had read the record as
\* available when another one's add_license for it was answered 200 is
\* answered 409.
C1_OneConcurrentAddSucceeds ==
  [][\A k \in Keys :
       (Answered(out', "add_license") /\ out'.req.key = k
        /\ out'.worker \in rivals[k])
       => (out'.resp.status = 409 /\ out'.resp.body = NotAvailableBody)]_vars

\* C2: the write of an add_license answered 200 is applied to a record whose
\* committed status is available at the moment of the write, so it never
\* overwrites the entity_id of a record that is assigned.
C2_AssignOnlyFromAvailable ==
  [][\A k \in Keys :
       Granted(out', k) => (db[k].status = "available" /\ db[k].entity_id = NULL)]_vars

\* C3: in every committed state of the table, a record has an entity_id that
\* is not NULL if and only if its status is assigned.
C3_EntityIffAssigned ==
  \A k \in DOMAIN db : (db[k].entity_id # NULL) <=> (db[k].status = "assigned")

\* C3 witness: an add_license has assigned one record while another record,
\* named by no one, is available.
C3_Witness ==
  /\ Granted(out, "K1")
  /\ db["K1"].status = "assigned" /\ db["K1"].entity_id = out.req.entityId
  /\ "K2" \in DOMAIN db /\ db["K2"].status = "available"
  /\ rivals["K1"] # {}

\* The last two writes were an add_license answered 200 and then a
\* remove_license answered 200 that names its key, and the last step answered
\* a get_license for the key and product of the add_license.
AddRemoveGet ==
  /\ Len(hist) = 2
  /\ hist[1].req.route = "add_license"
  /\ hist[2].req.route = "remove_license"
  /\ hist[1].req.key \in KeysOf(hist[2].req.licenses)
  /\ Answered(out, "get_license")
  /\ out.req.key = hist[1].req.key /\ out.req.aud = hist[1].req.aud

\* C4: add_license answered 200, then remove_license of the key, then
\* get_license of the same (key, aud): the record is available, its entity_id
\* and date_assigned are cleared, every other column is as it was before the
\* add_license, and the response is the one get_license would have returned
\* before the add_license.
C4_AddRemoveGetRoundTrip ==
  AddRemoveGet =>
    LET k == out.req.key
        before == hist[1].pre[k]
    IN  /\ db[k].status = "available"
        /\ db[k].entity_id = NULL
        /\ db[k].date_assigned = NoTime
        /\ db[k].product_id = before.product_id
        /\ db[k].numberOfSeats = before.numberOfSeats
        /\ db[k].exp = before.exp
        /\ db[k].editions = before.editions
        /\ db[k] = before
        /\ out.resp = Json(200, License(before.license_key, before.product_id,
                                        before.numberOfSeats, before.exp,
                                        before.editions))

\* C4 witness: the round trip on the record that has an expiration.
C4_Witness ==
  /\ AddRemoveGet
  /\ out.req.key = "K2"
  /\ out.resp.status = 200
  /\ out.resp.body.exp = <<1>>

\* C5: a remove_license with a list of keys is answered 200 with an empty
\* body, and when the same request is run twice in a row the table after the
\* second run is the table after the first.
C5_RemoveIdempotent ==
  /\ (Answered(out, "remove_license") /\ out.req.present /\ out.req.licenses # <<>>)
       => out.resp = Text(200, "")
  /\ (Len(hist) = 2 /\ hist[1].req.route = "remove_license" /\ hist[2].req = hist[1].req)
       => (hist[2].post = hist[1].post /\ hist[1].resp = Text(200, "")
           /\ hist[2].resp = Text(200, ""))

\* C5 witness: the same remove_license ran twice and its first run released an
\* assigned record.
C5_Witness ==
  /\ Len(hist) = 2
  /\ hist[1].req.route = "remove_license"
  /\ hist[2].req = hist[1].req
  /\ \E k \in DOMAIN hist[1].pre : hist[1].pre[k].status = "assigned"
  /\ out.req = hist[2].req

\* C6: processed one after another, after an add_license for a key was answered
\* 200 the record stays assigned to its entity and every further add_license
\* for the key is answered 409, until a remove_license that names the key is
\* answered; the next add_license for the key and its product is answered 200.
C6_AssignedUntilRemoved ==
  [][\A k \in Keys :
       /\ owner'[k] # NULL
            => (db'[k].status = "assigned" /\ db'[k].entity_id = owner'[k])
       /\ (Answered(out', "add_license") /\ Complete(out'.req) /\ out'.req.key = k
           /\ owner[k] # NULL)
            => (out'.resp.status = 409 /\ db' = db)
       /\ (Answered(out', "add_license") /\ Complete(out'.req) /\ out'.req.key = k
           /\ owner[k] = NULL /\ Matches(k, out'.req.aud))
            => (out'.resp.status = 200 /\ owner'[k] = out'.req.entityId)
       /\ Freed(out', k) => (owner'[k] = NULL /\ (k \in DOMAIN db => db'[k].status = "available"))]_vars

\* C6 witness: an add_license by another entity was answered 409 for a key
\* that was added again after a remove_license.
C6_Witness ==
  /\ Len(hist) = 2
  /\ hist[1].req.route = "remove_license"
  /\ hist[2].req.route = "add_license"
  /\ hist[2].req.key \in KeysOf(hist[1].req.licenses)
  /\ hist[1].pre[hist[2].req.key].status = "assigned"
  /\ Answered(out, "add_license")
  /\ out.req.key = hist[2].req.key /\ out.req.aud = hist[2].req.aud
  /\ out.req.entityId \in Entities \ {hist[2].req.entityId}
  /\ out.resp.status = 409
  /\ owner[out.req.key] = hist[2].req.entityId

\* C7: an add_license whose SELECT finds no record for (key, aud), or finds
\* one whose status is not available, is answered 409 with a description and
\* changes no record: it is answered at its SELECT and does not go on to the
\* UPDATE.
C7_AddConflict ==
  [][\A r \in Workers :
       /\ (out'.worker = r /\ pc[r] = "idle" /\ Answered(out', "add_license")
           /\ Complete(out'.req)
           /\ ~MatchAvailable(out'.req.key, out'.req.aud))
          => (/\ out'.resp.status = 409
              /\ out'.resp.type = "json"
              /\ DOMAIN out'.resp.body = {"description"}
              /\ db' = db
              /\ out'.writes = {})
       /\ (pc[r] = "idle" /\ pc'[r] = "update")
          => MatchAvailable(req'[r].key, req'[r].aud)]_vars

\* C7 witness: an add_license for a key that exists under another product was
\* answered 409 while the other worker had read the record as available.
C7_Witness ==
  /\ Answered(out, "add_license")
  /\ out.req.key = "K1" /\ out.req.aud = "P2" /\ out.req.entityId = "E1"
  /\ out.resp.status = 409
  /\ db["K1"].product_id = "P1"
  /\ \E r \in Workers : pc[r] = "update" /\ req[r].key = "K1"

\* C8: an add_license in which key, aud or entityId is missing or empty is
\* answered 400 without a storage connection and without a statement: the
\* table and every transaction are as they were.
C8_AddMissingField ==
  [][(Answered(out', "add_license") /\ ~Complete(out'.req))
       => (/\ out'.resp.status = 400
           /\ out'.conn = "none"
           /\ out'.writes = {}
           /\ db' = db
           /\ pending' = pending)]_vars

\* C8 witness: an add_license with an empty entityId, for a record that is
\* available, was answered 400.
C8_Witness ==
  /\ Answered(out, "add_license")
  /\ out.req.key = "K1" /\ out.req.aud = "P1" /\ out.req.entityId = ""
  /\ out.resp.status = 400
  /\ db["K1"].status = "available"

\* C9: a get_license for a (key, aud) pair that matches no record is answered
\* 404 with the fixed description, whatever the other worker is doing.
C9_GetNotFound ==
  (Answered(out, "get_license") /\ ~Missing(out.req.key) /\ ~Missing(out.req.aud)
   /\ ~Matches(out.req.key, out.req.aud))
  => (out.resp.status = 404 /\ out.resp.type = "json" /\ out.resp.body = NotFoundBody)

\* C9 witness: a get_license for a key that exists under another product was
\* answered 404 while the other worker's remove_license held the row lock.
C9_Witness ==
  /\ Answered(out, "get_license")
  /\ out.req.key = "K1" /\ out.req.aud = "P2"
  /\ out.resp.status = 404
  /\ \E r \in Workers : pc[r] = "loop" /\ "K1" \in DOMAIN pending[r]

\* The records a remove_license request names.
Batch(q) == KeysOf(q.licenses) \cap DOMAIN db

\* C10: remove_license applies its batch all or nothing.  A step of the
\* request leaves the committed table as it is, unless it is the commit, which
\* releases every record of the batch; a request that fails after some of its
\* UPDATE statements is answered 500 and releases none; and an add_license of
\* another worker for a record of the batch that is still assigned in the
\* committed table is answered 409.
C10_RemoveAllOrNothing ==
  [][\A r \in Workers :
       /\ (pc[r] = "loop" /\ (local'[r] # local[r] \/ out'.worker = r))
            => \/ db' = db /\ out'.resp.status # 200
               \/ /\ out'.worker = r /\ out'.resp = Text(200, "")
                  /\ \A k \in Batch(req[r]) :
                       /\ db'[k].status = "available"
                       /\ db'[k].entity_id = NULL
                       /\ db'[k].date_assigned = NoTime
                  /\ \A k \in DOMAIN db \ Batch(req[r]) : db'[k] = db[k]
       /\ (pc[r] = "loop" /\ out'.worker = r /\ out'.resp.status # 200)
            => (out'.resp = InternalError /\ db' = db)
       /\ (pc[r] = "loop" /\ out'.worker # r /\ Answered(out', "add_license")
           /\ out'.req.key \in DOMAIN pending[r]
           /\ db[out'.req.key].status = "assigned")
            => out'.resp.status \in {409, 500}]_vars

\* C10 witness: a remove_license of two assigned records failed after the
\* UPDATE of one of them; both are still assigned.
C10_Witness ==
  /\ Answered(out, "remove_license")
  /\ out.resp.status = 500
  /\ Len(out.req.licenses) = 2
  /\ Cardinality(Batch(out.req)) = 2
  /\ Cardinality(out.writes) = 1
  /\ \A k \in Batch(out.req) : db[k].status = "assigned"


\* C11: remove_license answers 200 with an empty body whatever its keys match;
\* at its commit every record of the batch that is assigned is released (status
\* available, entity_id and date_assigned cleared, the other columns kept) and
\* every other record, among them the records of the batch that are already
\* available, is as it was; a key that matches no record adds no record.
C11_RemoveSkipsSilently ==
  [][(pc[1] = "loop" /\ out'.worker = 1)
       => (/\ out'.resp = Text(200, "")
           /\ DOMAIN db' = DOMAIN db
           /\ \A k \in DOMAIN db :
                IF k \in KeysOf(req[1].licenses) /\ db[k].status = "assigned"
                THEN db'[k] = [db[k] EXCEPT !.status = "available",
                                           !.entity_id = NULL,
                                           !.date_assigned = NoTime]
                ELSE db'[k] = db[k])]_vars

\* C11 witness: a batch that names an assigned record and a key that matches
\* no record was answered 200 and the assigned record is released.
C11_Witness ==
  /\ Answered(out, "remove_license")
  /\ out.resp = Text(200, "")
  /\ hist # <<>> /\ hist[Len(hist)].req = out.req
  /\ "K1" \in KeysOf(out.req.licenses)
  /\ hist[Len(hist)].pre["K1"].status = "assigned"
  /\ db["K1"].status = "available"
  /\ "K2" \in KeysOf(out.req.licenses) /\ "K2" \notin DOMAIN db

\* C12: a remove_license from which no license key can be taken (no body, an
\* empty licenses list, or a list none of whose entries carries a key) is
\* answered 400 without a storage connection.
C12_RemoveWithoutKeys ==
  [][(Answered(out', "remove_license") /\ KeysOf(out'.req.licenses) = {})
       => (out'.resp.status = 400 /\ out'.conn = "none")]_vars

\* C13: get_license is read-only: the step that answers a get_license, with
\* 200, 400 or 404, leaves the committed table and every open transaction as
\* they were and has written no row.
C13_GetReadOnly ==
  [][Answered(out', "get_license")
       => (/\ out'.resp.status \in {200, 400, 404}
           /\ db' = db
           /\ \A r \in Workers \ {out'.worker} : pending'[r] = pending[r]
           /\ out'.writes = {})]_vars

\* C13 witness: a get_license answered 200 for a record that is assigned,
\* while the other worker's transaction has written a row.
C13_Witness ==
  /\ Answered(out, "get_license")
  /\ out.resp.status = 200
  /\ db[out.req.key].status = "assigned"
  /\ \E r \in Workers : pending[r] # NoWrites

\* C14: when a request is answered, the storage connection it acquired has
\* been closed, on every path.
C14_ConnectionReleased ==
  out.conn # "open"

\* The body of the generic 500 response.
GenericErrorBody == [description |-> "An internal server error occurred."]

\* C15: an add_license that is not answered 200 changes no record; one that
\* fails at a storage call (it had read an available record, or its record is
\* available when it is answered without going on to the UPDATE) is answered
\* 500 with the generic description, which no 409 response carries.
C15_AddStorageFailure ==
  [][\A r \in Workers :
       (out'.worker = r /\ Answered(out', "add_license") /\ out'.resp.status # 200)
       => (/\ db' = db
           /\ (pc[r] = "update"
               \/ (Complete(out'.req) /\ MatchAvailable(out'.req.key, out'.req.aud)))
              => (out'.resp.status = 500 /\ out'.resp.type = "json"
                  /\ out'.resp.body = GenericErrorBody)
           /\ out'.resp.status = 409
              => out'.resp.body # GenericErrorBody
           /\ out'.resp.status \in {400, 409, 500})]_vars

\* C15 witness: an add_license for an available record was answered 500 while
\* the other worker was between its SELECT and its UPDATE of the same record;
\* the record is still available.
C15_Witness ==
  /\ Answered(out, "add_license")
  /\ out.resp.status = 500
  /\ MatchAvailable(out.req.key, out.req.aud)
  /\ \E r \in Workers : pc[r] = "update" /\ req[r].key = out.req.key

\* C16: every response with status 400, 401, 404, 409 or 500 has a JSON body
\* of the shape {"description": message}.
C16_ErrorBodyShape ==
  out.resp.status \in {400, 401, 404, 409, 500}
    => (out.resp.type = "json" /\ DOMAIN out.resp.body = {"description"})

\* C17: a request to /get_license, /add_license or /remove_license without the
\* issuer's credentials is answered 401 at once, without a storage connection
\* and with the table unchanged, whatever its parameters and body; a worker
\* goes on into a view only for a request with the credentials; GET / is
\* answered 200 with or without credentials.
C17_CredentialsRequired ==
  [][/\ (out'.req.route \in {"get_license", "add_license", "remove_license"}
         /\ out'.req.auth # <<ISSUER_ID, ISSUER_SECRET>>)
        => (/\ out'.resp.status = 401
            /\ out'.conn = "none"
            /\ out'.writes = {}
            /\ db' = db
            /\ pending' = pending)
     /\ \A r \in Workers :
          pc'[r] # "idle" => req'[r].auth = <<ISSUER_ID, ISSUER_SECRET>>
     /\ out'.req.route = "index" => out'.resp.status = 200]_vars

\* C17 witness: an add_license for an available record with the issuer's id
\* and a wrong secret was answered 401; the record is still available.
C17_Witness ==
  /\ out.req.route = "add_license"
  /\ out.req.auth = <<ISSUER_ID, "wrong">>
  /\ Complete(out.req)
  /\ MatchAvailable(out.req.key, out.req.aud)
  /\ out.resp.status = 401

\* C18: no step creates or deletes a record or changes a record's license_key,
\* product_id, numberOfSeats, exp, editions or date_created: a step changes at
\* most status, entity_id and date_assigned.
C18_BusinessFieldsImmutable ==
  [][/\ DOMAIN db' = DOMAIN db
     /\ \A k \in DOMAIN db :
          /\ db'[k].license_key = db[k].license_key
          /\ db'[k].product_id = db[k].product_id
          /\ db'[k].numberOfSeats = db[k].numberOfSeats
          /\ db'[k].exp = db[k].exp
          /\ db'[k].editions = db[k].editions
          /\ db'[k].date_created = db[k].date_created
          /\ DOMAIN db'[k] = DOMAIN db[k]]_vars

\* C18 witness: the record with two seats and an expiration has been assigned
\* by an add_license while the other worker's remove_license had written a row.
C18_Witness ==
  /\ Granted(out, "K2")
  /\ db["K2"].status = "assigned"
  /\ db["K2"].numberOfSeats = 2 /\ db["K2"].exp = <<3>>
  /\ \E r \in Workers : pending[r] # NoWrites

\* C19: after an add_license for (key, aud) was answered 200, and before the
\* next remove_license, a get_license for the same (key, aud) is answered 200
\* with a License object equal, field for field, to the one License of the
\* LicenseCluster the add_license returned.
C19_ClusterLicenseIsLookup ==
  (/\ hist # <<>>
   /\ hist[Len(hist)].req.route = "add_license"
   /\ Answered(out, "get_license")
   /\ out.req.key = hist[Len(hist)].req.key
   /\ out.req.aud = hist[Len(hist)].req.aud)
  => LET cluster == hist[Len(hist)].resp.body.licenses
     IN  /\ Len(cluster) = 1
         /\ out.resp.status = 200 /\ out.resp.type = "json"
         /\ DOMAIN out.resp.body =
              {"id", "key", "aud", "iss", "exp", "numberOfSeats", "editions"}
         /\ DOMAIN cluster[1] = DOMAIN out.resp.body
         /\ \A f \in DOMAIN out.resp.body : cluster[1][f] = out.resp.body[f]

\* C19 witness: the lookup after the assignment of the record that has an
\* expiration and two editions.
C19_Witness ==
  /\ hist # <<>>
  /\ hist[Len(hist)].req.route = "add_license"
  /\ hist[Len(hist)].req.key = "K2"
  /\ Answered(out, "get_license")
  /\ out.req.key = "K2" /\ out.req.aud = "P2"
  /\ out.resp.status = 200
  /\ out.resp.body.exp = <<1>>
  /\ Cardinality(out.resp.body.editions) = 2
  /\ db["K2"].status = "assigned"

\* C20: a request changes only the records it names.  An add_license answered
\* 200 for key K has written the record K and no other: K is assigned to the
\* request's entity, every other record is as it was.  A remove_license for a
\* list L has written only records of L and every record whose key is not in
\* L is as it was.  A step that answers anything but 200, or answers nothing,
\* changes no record.
C20_OnlyNamedRecords ==
  [][/\ Answered(out', "add_license") /\ out'.resp.status = 200
        => (/\ out'.writes = {out'.req.key}
            /\ out'.req.key \in DOMAIN db
            /\ db'[out'.req.key].status = "assigned"
            /\ db'[out'.req.key].entity_id = out'.req.entityId
            /\ \A k \in DOMAIN db \ {out'.req.key} : db'[k] = db[k])
     /\ Answered(out', "remove_license")
        => (/\ out'.writes \subseteq KeysOf(out'.req.licenses)
            /\ \A k \in DOMAIN db \ KeysOf(out'.req.licenses) : db'[k] = db[k])
     /\ out'.resp.status # 200 => db' = db]_vars

\* C20 witness: an add_license for K1 was answered 200 while K2 is assigned to
\* another entity, and K2 is still assigned to it.
C20_Witness ==
  /\ Granted(out, "K1")
  /\ db["K1"].entity_id = out.req.entityId
  /\ "K2" \in DOMAIN db
  /\ db["K2"].status = "assigned"
  /\ db["K2"].entity_id \in Entities \ {out.req.entityId}

====
